---- MODULE Spec2Model ----
(***************************************************************************)
(* A model of the execution-and-parsing layer of go-zfs (utils.go):        *)
(* the octal escape decoder, the zfs diff line parser, the process         *)
(* runner, the property parsers of datasets and pools, the listing and     *)
(* renaming operations and the package-level default client.  Strings are  *)
(* sequences of bytes (0..255); a Go error is the sequence of its wrapped  *)
(* messages, outermost first, and nil is <<>>.                             *)
(***************************************************************************)
EXTENDS Integers, Sequences, FiniteSets, TLC

VARIABLES
    pc,     \* position of the call in progress
    arg,    \* the arguments of the call
    ret,    \* what the call returned
    frame,  \* the local variables of run
    proc,   \* what the external process did
    sink,   \* the bytes the caller's output sink received
    log,    \* the events the logger received
    pkg     \* the package-level default client and the clients it can name

vars == <<pc, arg, ret, frame, proc, sink, log, pkg>>
env == <<frame, proc, sink, log, pkg>>

(* ----------------------------- bytes ----------------------------------- *)
ChBackslash == 92
ChSpace     == 32
ChTab       == 9
ChNewline   == 10
ChDel       == 127
ChZero      == 48
ChSeven     == 55
ChNine      == 57
ChLParen    == 40
ChRParen    == 41
ChPlus      == 43
ChMinus     == 45

NoErr == <<>>
NoValue == "none"

\* no run call is in progress
NoRun == frame = NoValue /\ proc = NoValue /\ sink = <<>> /\ log = <<>> /\ pkg = NoValue

RECURSIVE StringsUpTo(_, _)
\* every string over alphabet of length at most n
StringsUpTo(alphabet, n) ==
    IF n = 0 THEN {<<>>}
    ELSE LET shorter == StringsUpTo(alphabet, n - 1)
         IN  shorter \cup {Append(s, c) : s \in shorter, c \in alphabet}

(* ------------------- strconv.ParseUint(s, 8, 8) ------------------------ *)
IsOctalDigit(c) == c >= ChZero /\ c <= ChSeven

RECURSIVE OctalValue(_, _)
OctalValue(s, acc) ==
    IF s = <<>> THEN acc ELSE OctalValue(Tail(s), acc * 8 + (Head(s) - ChZero))

MaxUint8 == 255

ParseUint8SkipsRange(s) ==
    IF s = <<>> \/ \E k \in 1..Len(s) : ~IsOctalDigit(s[k])
    THEN [val |-> 0, err |-> <<"ErrSyntax">>]
    ELSE [val |-> OctalValue(s, 0) % 256, err |-> NoErr]

\* base 8, bitSize 8: a byte outside 0-7 is a syntax error, a value above
\* 255 a range error
ParseUint8(s) ==
    IF s = <<>> \/ \E k \in 1..Len(s) : ~IsOctalDigit(s[k])
    THEN [val |-> 0, err |-> <<"ErrSyntax">>]
    ELSE IF OctalValue(s, 0) > MaxUint8
         THEN [val |-> MaxUint8, err |-> <<"ErrRange">>]
         ELSE [val |-> OctalValue(s, 0), err |-> NoErr]

(* ----------------------- unescapeFilepath ------------------------------ *)
TooShort == <<"invalid octal code: too short">>

RECURSIVE unescapeLoop(_, _, _)
\* the loop of unescapeFilepath; i is the zero-based index of the code
unescapeLoop(path, i, buf) ==
    IF i >= Len(path) THEN [val |-> buf, err |-> NoErr]
    ELSE IF path[i + 1] = ChBackslash
         THEN IF Len(path) < i + 4
              THEN [val |-> <<>>, err |-> TooShort]
              ELSE LET p == ParseUint8(SubSeq(path, i + 2, i + 4))
                   IN  IF p.err # NoErr
                       THEN [val |-> <<>>, err |-> <<"invalid octal code">> \o p.err]
                       ELSE unescapeLoop(path, i + 4, Append(buf, p.val))
         ELSE unescapeLoop(path, i + 1, Append(buf, path[i + 1]))

RECURSIVE unescapeLoopShortWindow(_, _, _)
unescapeLoopShortWindow(path, i, buf) ==
    IF i >= Len(path) THEN [val |-> buf, err |-> NoErr]
    ELSE IF path[i + 1] = ChBackslash
         THEN IF Len(path) < i + 3
              THEN [val |-> <<>>, err |-> TooShort]
              ELSE LET p == ParseUint8(SubSeq(path, i + 2, i + 3))
                   IN  IF p.err # NoErr
                       THEN [val |-> <<>>, err |-> <<"invalid octal code">> \o p.err]
                       ELSE unescapeLoopShortWindow(path, i + 3, Append(buf, p.val))
         ELSE unescapeLoopShortWindow(path, i + 1, Append(buf, path[i + 1]))

unescapeFilepathShortWindow(path) == unescapeLoopShortWindow(path, 0, <<>>)

unescapeFilepath(path) == unescapeLoop(path, 0, <<>>)

(* -------- the escape function of zfs diff that the decoder inverts ----- *)
Octal3(b) == <<ChZero + (b \div 64), ChZero + ((b \div 8) % 8), ChZero + (b % 8)>>

Printable(b) == b >= ChSpace /\ b < ChDel

RECURSIVE escapeFilepath(_)
escapeFilepath(p) ==
    IF p = <<>> THEN <<>>
    ELSE (IF Printable(Head(p)) THEN <<Head(p)>> ELSE <<ChBackslash>> \o Octal3(Head(p)))
         \o escapeFilepath(Tail(p))

(* ----------------- specification: the decoder alone -------------------- *)
MaxPath == 5
\* backslash, octal digits below and above the byte range, a non-octal
\* digit and a letter
PathAlphabet == {ChBackslash, ChZero, 49, 52, ChSeven, ChNine, 97}

InitUnescape ==
    /\ pc = "call"
    /\ arg \in [path : StringsUpTo(PathAlphabet, MaxPath)]
    /\ ret = NoValue
    /\ NoRun

Unescape ==
    /\ pc = "call"
    /\ ret' = unescapeFilepath(arg.path)
    /\ pc' = "done"
    /\ UNCHANGED <<arg, env>>

NextUnescape == Unescape

SpecUnescape == InitUnescape /\ [][NextUnescape]_vars

(* --------- specification: zfs diff's escape, then the decoder ---------- *)
MaxBytes == 3
\* control bytes, space, digits, a letter, backslash, DEL and 8-bit bytes
ByteAlphabet == {1, ChNewline, ChSpace, ChZero, 49, 97, ChBackslash, ChDel, 128, 255}

InitRoundTrip ==
    /\ pc = "call"
    /\ arg \in [p : StringsUpTo(ByteAlphabet, MaxBytes), path : {<<>>}]
    /\ ret = NoValue
    /\ NoRun

\* zfs diff prints the name p escaped
Escape ==
    /\ pc = "call"
    /\ arg' = [arg EXCEPT !.path = escapeFilepath(arg.p)]
    /\ pc' = "escaped"
    /\ UNCHANGED <<ret, env>>

UnescapeEscaped ==
    /\ pc = "escaped"
    /\ ret' = unescapeFilepath(arg.path)
    /\ pc' = "done"
    /\ UNCHANGED <<arg, env>>

NextRoundTrip == Escape \/ UnescapeEscaped

SpecRoundTrip == InitRoundTrip /\ [][NextRoundTrip]_vars

(* ------------------------------ C6 ------------------------------------- *)
Prepend(b, r) == IF r.err # NoErr THEN r ELSE [val |-> <<b>> \o r.val, err |-> NoErr]

RECURSIVE RefDecodeClaimed(_)
\* the reference decoder as the claim words it: any three octal digits
\* after a backslash stand for the value they spell
RefDecodeClaimed(s) ==
    IF s = <<>> THEN [val |-> <<>>, err |-> NoErr]
    ELSE IF Head(s) # ChBackslash THEN Prepend(Head(s), RefDecodeClaimed(Tail(s)))
    ELSE IF Len(s) < 4 THEN [val |-> <<>>, err |-> TooShort]
    ELSE IF \E k \in 2..4 : ~IsOctalDigit(s[k])
         THEN [val |-> <<>>, err |-> <<"invalid octal code", "ErrSyntax">>]
    ELSE Prepend((s[2] - ChZero) * 64 + (s[3] - ChZero) * 8 + (s[4] - ChZero),
                 RefDecodeClaimed(SubSeq(s, 5, Len(s))))

RECURSIVE RefDecode(_)
\* the same decoder with the escapes above \377 rejected
RefDecode(s) ==
    IF s = <<>> THEN [val |-> <<>>, err |-> NoErr]
    ELSE IF Head(s) # ChBackslash THEN Prepend(Head(s), RefDecode(Tail(s)))
    ELSE IF Len(s) < 4 THEN [val |-> <<>>, err |-> TooShort]
    ELSE IF \E k \in 2..4 : ~IsOctalDigit(s[k])
         THEN [val |-> <<>>, err |-> <<"invalid octal code", "ErrSyntax">>]
    ELSE IF s[2] > 51
         THEN [val |-> <<>>, err |-> <<"invalid octal code", "ErrRange">>]
    ELSE Prepend((s[2] - ChZero) * 64 + (s[3] - ChZero) * 8 + (s[4] - ChZero),
                 RefDecode(SubSeq(s, 5, Len(s))))

\* C6 as stated: unescapeFilepath agrees with the reference decoder on every
\* input: every backslash followed by three octal digits becomes the byte of
\* that base-8 value, other bytes are copied, a short escape is "too short",
\* a non-octal escape wraps the parse failure, errors return the empty
\* string.
C6_MatchesClaimedDecoder ==
    pc = "done" => ret = RefDecodeClaimed(arg.path)

\* C6 amended: unescapeFilepath agrees with the reference decoder on every
\* input, where an escape of three octal digits whose value exceeds 255
\* (\400 to \777) is an error wrapping the numeric parse failure (out of
\* range) instead of a decoded byte.
C6_MatchesDecoder ==
    pc = "done" =>
        /\ ret = RefDecode(arg.path)
        /\ ret.err # NoErr => ret.val = <<>>

\* an escape after a literal byte has been decoded
C6_Witness ==
    /\ pc = "done"
    /\ arg.path = <<97, ChBackslash, ChZero, 52, ChZero>>
    /\ ret = [val |-> <<97, ChSpace>>, err |-> NoErr]

(* ------------------------------ C7 ------------------------------------- *)
\* C7 as stated: for every byte sequence p, escaping p (backslash emitted
\* unchanged) and decoding the result with unescapeFilepath succeeds and
\* returns exactly p.
C7_RoundTripEveryP ==
    pc = "done" => ret = [val |-> arg.p, err |-> NoErr]

HasByte(s, b) == \E k \in 1..Len(s) : s[k] = b

\* C7 amended: for every byte sequence p that holds no backslash byte,
\* escaping p and decoding the result with unescapeFilepath succeeds and
\* returns exactly p.
C7_RoundTripNoBackslash ==
    (pc = "done" /\ ~HasByte(arg.p, ChBackslash)) =>
        ret = [val |-> arg.p, err |-> NoErr]

\* a name with a control byte, a printable byte and an 8-bit byte came back
C7_Witness ==
    /\ pc = "done"
    /\ arg.p = <<1, 97, 255>>
    /\ arg.path = <<ChBackslash, ChZero, ChZero, 49, 97, ChBackslash, 51, ChSeven, ChSeven>>
    /\ ret.val = arg.p

(* ------------------------- zfs diff lines ------------------------------ *)
\* a pointer or a slice is <<>> when nil and <<x>> when it holds x
Nil == <<>>
Ref(x) == <<x>>
Deref(p) == p[1]

Removed  == 1
Created  == 2
Modified == 3
Renamed  == 4

BlockDevice     == 1
CharacterDevice == 2
Directory       == 3
Door            == 4
NamedPipe       == 5
SymbolicLink    == 6
EventPort       == 7
Socket          == 8
File            == 9

\* a Go map lookup: the zero value for a key the map does not hold
changeTypeMap(f) ==
    CASE f = <<ChMinus>> -> Removed
      [] f = <<ChPlus>>  -> Created
      [] f = <<77>>      -> Modified
      [] f = <<82>>      -> Renamed
      [] OTHER           -> 0

inodeTypeMapDefaultsToFile(f) ==
    CASE f = <<66>>  -> BlockDevice
      [] f = <<67>>  -> CharacterDevice
      [] f = <<47>>  -> Directory
      [] f = <<62>>  -> Door
      [] f = <<124>> -> NamedPipe
      [] f = <<64>>  -> SymbolicLink
      [] f = <<80>>  -> EventPort
      [] f = <<61>>  -> Socket
      [] OTHER       -> File

inodeTypeMap(f) ==
    CASE f = <<66>>  -> BlockDevice
      [] f = <<67>>  -> CharacterDevice
      [] f = <<47>>  -> Directory
      [] f = <<62>>  -> Door
      [] f = <<124>> -> NamedPipe
      [] f = <<64>>  -> SymbolicLink
      [] f = <<80>>  -> EventPort
      [] f = <<61>>  -> Socket
      [] f = <<70>>  -> File
      [] OTHER       -> 0

(* strconv.Atoi *)
IsDigit(c) == c >= ChZero /\ c <= ChNine

RECURSIVE DecimalValue(_, _)
DecimalValue(s, acc) ==
    IF s = <<>> THEN acc ELSE DecimalValue(Tail(s), acc * 10 + (Head(s) - ChZero))

\* the digits of the largest int and of the magnitude of the smallest
MaxInt64Digits == <<57, 50, 50, 51, 51, 55, 50, 48, 51, 54, 56, 53, 52, 55, 55, 53, 56, 48, 55>>
MinInt64Digits == <<57, 50, 50, 51, 51, 55, 50, 48, 51, 54, 56, 53, 52, 55, 55, 53, 56, 48, 56>>

RECURSIVE StripZeros(_)
StripZeros(d) == IF Len(d) > 1 /\ Head(d) = ChZero THEN StripZeros(Tail(d)) ELSE d

\* a > b for digit strings of one length
DigitsGreater(a, b) ==
    \E k \in 1..Len(a) : a[k] > b[k] /\ \A j \in 1..(k - 1) : a[j] = b[j]

OutOfInt64(negative, digits) ==
    LET d == StripZeros(digits)
        limit == IF negative THEN MinInt64Digits ELSE MaxInt64Digits
    IN  Len(d) > Len(limit) \/ (Len(d) = Len(limit) /\ DigitsGreater(d, limit))

\* an optional sign, then decimal digits, within the 64-bit int
Atoi(s) ==
    LET signed == s # <<>> /\ s[1] \in {ChPlus, ChMinus}
        negative == signed /\ s[1] = ChMinus
        digits == IF signed THEN Tail(s) ELSE s
    IN  IF digits = <<>> \/ \E k \in 1..Len(digits) : ~IsDigit(digits[k])
        THEN [val |-> 0, err |-> <<"ErrSyntax">>]
        ELSE IF OutOfInt64(negative, digits)
             THEN [val |-> IF negative THEN "MinInt64" ELSE "MaxInt64",
                   err |-> <<"ErrRange">>]
             ELSE [val |-> IF negative
                           THEN 0 - DecimalValue(digits, 0)
                           ELSE DecimalValue(digits, 0),
                   err |-> NoErr]

(* referenceCountRegex, \(([+-]\d+?)\), unanchored *)
\* the end (the index of the closing parenthesis) of a match that starts at
\* index i of field, or 0 when no match starts there
MatchEndAt(field, i) ==
    IF /\ i + 3 <= Len(field)
       /\ field[i] = ChLParen
       /\ field[i + 1] \in {ChPlus, ChMinus}
    THEN LET ends == {j \in (i + 3)..Len(field) :
                        /\ field[j] = ChRParen
                        /\ \A k \in (i + 2)..(j - 1) : IsDigit(field[k])}
         IN  IF ends = {} THEN 0 ELSE CHOOSE j \in ends : TRUE
    ELSE 0

\* FindStringSubmatch: the leftmost match; matches[1] is the signed number
FindStringSubmatch(field) ==
    LET starts == {i \in 1..Len(field) : MatchEndAt(field, i) # 0}
    IN  IF starts = {} THEN Nil
        ELSE LET i == CHOOSE x \in starts : \A y \in starts : x <= y
                 j == MatchEndAt(field, i)
             IN  <<SubSeq(field, i, j), SubSeq(field, i + 1, j - 1)>>

parseReferenceCount(field) ==
    LET matches == FindStringSubmatch(field)
    IN  IF matches = Nil
        THEN [val |-> 0, err |-> <<"regexp does not match">>]
        ELSE Atoi(matches[2])

fieldCountErrorModifiedAny(changeType, llen) ==
    CASE changeType = Renamed ->
            IF llen # 4 THEN <<"mismatching number of fields: expect 4">> ELSE NoErr
      [] changeType = Modified ->
            IF llen < 3 THEN <<"mismatching number of fields: expect 3..4">> ELSE NoErr
      [] OTHER ->
            IF llen # 3 THEN <<"mismatching number of fields: expect 3">> ELSE NoErr

\* the first switch of parseInodeChange
fieldCountError(changeType, llen) ==
    CASE changeType = Renamed ->
            IF llen # 4 THEN <<"mismatching number of fields: expect 4">> ELSE NoErr
      [] changeType = Modified ->
            IF llen # 4 /\ llen # 3
            THEN <<"mismatching number of fields: expect 3..4">> ELSE NoErr
      [] OTHER ->
            IF llen # 3 THEN <<"mismatching number of fields: expect 3">> ELSE NoErr

Wrap(msg, r) == [val |-> r.val, err |-> IF r.err = NoErr THEN NoErr ELSE <<msg>> \o r.err]

changeTailDecodesEveryFourth(changeType, line) ==
    IF Len(line) = 4
    THEN LET u == Wrap("failed to parse filename", unescapeFilepath(line[4]))
             r == IF changeType = Modified
                  THEN Wrap("failed to parse reference count", parseReferenceCount(line[4]))
                  ELSE [val |-> 0, err |-> NoErr]
         IN  [newPath |-> u.val, referenceCount |-> r.val,
              err |-> IF u.err # NoErr THEN u.err ELSE r.err]
    ELSE [newPath |-> <<>>, referenceCount |-> 0, err |-> NoErr]

\* the second switch of parseInodeChange: newPath and referenceCount
changeTail(changeType, line) ==
    CASE changeType = Renamed ->
            LET u == Wrap("failed to parse filename", unescapeFilepath(line[4]))
            IN  [newPath |-> u.val, referenceCount |-> 0, err |-> u.err]
      [] changeType = Modified /\ Len(line) = 4 ->
            LET r == Wrap("failed to parse reference count", parseReferenceCount(line[4]))
            IN  [newPath |-> <<>>, referenceCount |-> r.val, err |-> r.err]
      [] OTHER -> [newPath |-> <<>>, referenceCount |-> 0, err |-> NoErr]

Fail(e) == [val |-> Nil, err |-> e]

parseInodeChange(line) ==
    IF Len(line) < 1 THEN Fail(<<"empty line passed">>)
    ELSE LET changeType == changeTypeMap(line[1])
         IN
         IF changeType = 0 THEN Fail(<<"unknown change type">>)
         ELSE IF fieldCountError(changeType, Len(line)) # NoErr
              THEN Fail(fieldCountError(changeType, Len(line)))
         ELSE LET inodeType == inodeTypeMap(line[2])
              IN
              IF inodeType = 0 THEN Fail(<<"unknown inode type">>)
              ELSE LET path == Wrap("failed to parse filename", unescapeFilepath(line[3]))
                   IN
                   IF path.err # NoErr THEN Fail(path.err)
                   ELSE LET tail == changeTail(changeType, line)
                        IN  IF tail.err # NoErr THEN Fail(tail.err)
                            ELSE [val |-> Ref([Change |-> changeType,
                                               Type |-> inodeType,
                                               Path |-> path.val,
                                               NewPath |-> tail.newPath,
                                               ReferenceCountChange |-> tail.referenceCount]),
                                  err |-> NoErr]

RECURSIVE parseLoopSkipsBadLines(_, _, _)
parseLoopSkipsBadLines(lines, i, changes) ==
    IF i >= Len(lines)
    THEN [val |-> Ref(changes), err |-> NoErr, errIndex |-> 0 - 1, errGot |-> <<>>]
    ELSE LET c == parseInodeChange(lines[i + 1])
         IN  IF c.err # NoErr
             THEN parseLoopSkipsBadLines(lines, i + 1, changes)
             ELSE parseLoopSkipsBadLines(lines, i + 1, Append(changes, c.val))

parseInodeChangesSkipsBadLines(lines) == parseLoopSkipsBadLines(lines, 0, <<>>)

RECURSIVE parseLoop(_, _, _)
\* the loop of parseInodeChanges; i is the zero-based index of the code.
\* errIndex and errGot are the %d and the '%s' of the error's message
\* (-1 and empty when there is no error).
parseLoop(lines, i, changes) ==
    IF i >= Len(lines)
    THEN [val |-> Ref(changes), err |-> NoErr, errIndex |-> 0 - 1, errGot |-> <<>>]
    ELSE LET c == parseInodeChange(lines[i + 1])
         IN  IF c.err # NoErr
             THEN [val |-> Nil,
                   err |-> <<"failed to parse line of zfs diff">> \o c.err,
                   errIndex |-> i,
                   errGot |-> lines[i + 1]]
             ELSE parseLoop(lines, i + 1, Append(changes, c.val))

parseInodeChanges(lines) == parseLoop(lines, 0, <<>>)

(* ---------------- specification: one zfs diff line --------------------- *)
MaxFields == 5

\* what a field may hold, by its position in the line
FieldVocabulary(k) ==
    CASE k = 1 -> {<<ChMinus>>, <<ChPlus>>, <<77>>, <<82>>, <<88>>, <<>>, <<77, 77>>}
      [] k = 2 -> {<<66>>, <<67>>, <<47>>, <<62>>, <<124>>, <<64>>, <<80>>, <<61>>, <<70>>,
                   <<90>>, <<ChMinus>>, <<70, 70>>}
      [] k = 3 -> {<<47, 97>>,
                   <<47, ChBackslash, ChZero, 52, ChZero, 98>>,
                   <<ChBackslash, 49, 50>>,
                   <<ChBackslash, ChNine, ChZero, ChZero>>}
      [] k = 4 -> {<<47, 98>>,
                   <<ChBackslash, 49>>,
                   <<ChLParen, ChPlus, 49, ChRParen>>,
                   <<ChLParen, ChMinus, 50, ChRParen>>,
                   <<ChLParen, ChPlus, ChZero, ChRParen>>,
                   <<ChLParen, 120, ChRParen>>,
                   <<>>}
      [] OTHER -> {<<120>>}

RECURSIVE LinesUpTo(_)
LinesUpTo(n) ==
    IF n = 0 THEN {<<>>}
    ELSE LET shorter == LinesUpTo(n - 1)
         IN  shorter \cup {Append(l, f) : l \in {x \in shorter : Len(x) = n - 1},
                                          f \in FieldVocabulary(n)}

InitDiff ==
    /\ pc = "call"
    /\ arg \in [line : LinesUpTo(MaxFields)]
    /\ ret = NoValue
    /\ NoRun

ParseInodeChange ==
    /\ pc = "call"
    /\ ret' = parseInodeChange(arg.line)
    /\ pc' = "done"
    /\ UNCHANGED <<arg, env>>

NextDiff == ParseInodeChange

SpecDiff == InitDiff /\ [][NextDiff]_vars

(* ------- specification: Modified lines with a fourth field ------------- *)
MaxTail == 5
\* parentheses, the signs, two digits and a letter
TailAlphabet == {ChLParen, ChRParen, ChPlus, ChMinus, 49, 50, 120}

InitRefCount ==
    /\ pc = "call"
    /\ arg \in [line : {<<(<<77>>), t, (<<47, 97>>), f>> :
                          t \in {<<47>>, <<70>>},
                          f \in StringsUpTo(TailAlphabet, MaxTail)}]
    /\ ret = NoValue
    /\ NoRun

SpecRefCount == InitRefCount /\ [][NextDiff]_vars

(* ------------- specification: a batch of zfs diff lines ---------------- *)
MaxLines == 3

BatchLines ==
    { <<(<<77>>), (<<47>>), (<<47, 97>>)>>,
      <<(<<ChPlus>>), (<<70>>), (<<47, 97>>)>>,
      <<(<<82>>), (<<70>>), (<<47, 97>>), (<<47, 98>>)>>,
      <<(<<77>>), (<<70>>), (<<47, 97>>), (<<ChLParen, ChPlus, 49, ChRParen>>)>>,
      <<(<<88>>), (<<70>>), (<<47, 97>>)>>,
      <<(<<ChMinus>>), (<<70>>)>>,
      <<>> }

InitBatch ==
    /\ pc = "call"
    /\ arg \in [lines : StringsUpTo(BatchLines, MaxLines)]
    /\ ret = NoValue
    /\ NoRun

ParseInodeChanges ==
    /\ pc = "call"
    /\ ret' = parseInodeChanges(arg.lines)
    /\ pc' = "done"
    /\ UNCHANGED <<arg, env>>

NextBatch == ParseInodeChanges

SpecBatch == InitBatch /\ [][NextBatch]_vars

(* ------------------------------ C1 ------------------------------------- *)
ChangeCodes == {<<ChMinus>>, <<ChPlus>>, <<77>>, <<82>>}
InodeCodes == {<<66>>, <<67>>, <<47>>, <<62>>, <<124>>, <<64>>, <<80>>, <<61>>, <<70>>}

CountAllowed(code, n) ==
    CASE code = <<82>> -> n = 4
      [] code = <<77>> -> n \in {3, 4}
      [] OTHER         -> n = 3

\* C1: for a line whose field 0 is a recognised change code, a Renamed line
\* is accepted only with exactly 4 fields, a Modified line only with 3 or 4,
\* a Removed or Created line only with exactly 3; every other field count
\* returns an error and no InodeChange.
C1_FieldCount ==
    (pc = "done" /\ Len(arg.line) >= 1 /\ arg.line[1] \in ChangeCodes) =>
        /\ ret.err = NoErr => CountAllowed(arg.line[1], Len(arg.line))
        /\ ~CountAllowed(arg.line[1], Len(arg.line)) =>
               ret.val = Nil /\ ret.err # NoErr

\* a Modified line of five fields, otherwise well formed, was rejected
C1_Witness ==
    /\ pc = "done"
    /\ Len(arg.line) = 5
    /\ arg.line[1] = <<77>>
    /\ arg.line[2] \in InodeCodes
    /\ arg.line[3] = <<47, 97>>
    /\ arg.line[4] = <<ChLParen, ChPlus, 49, ChRParen>>
    /\ ret.val = Nil
    /\ ret.err = <<"mismatching number of fields: expect 3..4">>

(* ------------------------------ C2 ------------------------------------- *)
\* C2: a line whose field 0 is not one of - + M R, or whose field 1 is not one
\* of B C / > | @ P = F, returns an error and a nil InodeChange; no returned
\* InodeChange has the zero (unknown) Change or Type.
C2_UnknownCodes ==
    pc = "done" =>
        /\ ( \/ Len(arg.line) < 2
             \/ arg.line[1] \notin ChangeCodes
             \/ arg.line[2] \notin InodeCodes ) => (ret.val = Nil /\ ret.err # NoErr)
        /\ ret.val # Nil =>
              (Deref(ret.val).Change \in 1..4 /\ Deref(ret.val).Type \in 1..9)

\* a line well formed but for its inode code was rejected for that code
C2_Witness ==
    /\ pc = "done"
    /\ arg.line = <<(<<77>>), (<<90>>), (<<47, 97>>)>>
    /\ ret = [val |-> Nil, err |-> <<"unknown inode type">>]

(* ------------------------------ C3 ------------------------------------- *)
\* the whole field is ( sign digits )
ExactShape(f) ==
    /\ Len(f) >= 4
    /\ f[1] = ChLParen
    /\ f[2] \in {ChPlus, ChMinus}
    /\ \A k \in 3..(Len(f) - 1) : IsDigit(f[k])
    /\ f[Len(f)] = ChRParen

SignedValue(f) ==
    LET n == DecimalValue(SubSeq(f, 3, Len(f) - 1), 0)
    IN  IF f[2] = ChMinus THEN 0 - n ELSE n

\* C3: for a Modified line with 4 fields, parseInodeChange succeeds only
\* when field 3 has the exact shape (+N) or (-N), and then
\* ReferenceCountChange is the signed integer N; a field 3 of any other
\* shape, extra characters before or after the group included, is an error.
C3_ExactShapeOnly ==
    (pc = "done" /\ Len(arg.line) = 4 /\ arg.line[1] = <<77>>) =>
        /\ ret.err = NoErr =>
              /\ ExactShape(arg.line[4])
              /\ Deref(ret.val).ReferenceCountChange = SignedValue(arg.line[4])
        /\ ~ExactShape(arg.line[4]) => ret.err # NoErr

(* ------------------------------ C4 ------------------------------------- *)
\* C4: every InodeChange returned has NewPath non-empty only if Change is
\* Renamed, and ReferenceCountChange nonzero only if Change is Modified and
\* the line had 4 fields.
C4_TailFields ==
    (pc = "done" /\ ret.val # Nil) =>
        /\ Deref(ret.val).NewPath # <<>> => Deref(ret.val).Change = Renamed
        /\ Deref(ret.val).ReferenceCountChange # 0 =>
              (Deref(ret.val).Change = Modified /\ Len(arg.line) = 4)

\* a Modified line with a reference count suffix was parsed
C4_Witness ==
    /\ pc = "done"
    /\ arg.line = <<(<<77>>), (<<47>>), (<<47, 97>>), (<<ChLParen, ChMinus, 50, ChRParen>>)>>
    /\ ret.err = NoErr
    /\ Deref(ret.val).Change = Modified
    /\ Deref(ret.val).NewPath = <<>>
    /\ Deref(ret.val).ReferenceCountChange = 0 - 2

(* ------------------------------ C5 ------------------------------------- *)
Malformed(lines) == {k \in 1..Len(lines) : parseInodeChange(lines[k]).err # NoErr}

First(S) == CHOOSE x \in S : \A y \in S : x <= y

\* C5: parseInodeChanges over N lines returns, when a line is malformed, a
\* nil sequence and an error naming the zero-based index of the first
\* malformed line and its raw content; when none is, exactly N changes,
\* element i being the parse of line i.
C5_BatchResult ==
    pc = "done" =>
        IF Malformed(arg.lines) # {}
        THEN /\ ret.val = Nil
             /\ ret.err # NoErr
             /\ ret.errIndex = First(Malformed(arg.lines)) - 1
             /\ ret.errGot = arg.lines[First(Malformed(arg.lines))]
        ELSE /\ ret.err = NoErr
             /\ ret.val # Nil
             /\ Len(Deref(ret.val)) = Len(arg.lines)
             /\ \A i \in 1..Len(arg.lines) :
                    Deref(ret.val)[i] = parseInodeChange(arg.lines[i]).val

\* a batch of three lines with the second and the third malformed was
\* refused with the index of the second
C5_Witness ==
    /\ pc = "done"
    /\ Len(arg.lines) = 3
    /\ Malformed(arg.lines) = {2, 3}
    /\ arg.lines[2] # arg.lines[3]
    /\ ret.val = Nil
    /\ ret.errIndex = 1
    /\ ret.errGot = arg.lines[2]

(* ------------------------------- run ----------------------------------- *)
\* strings.Join
RECURSIVE JoinFrom(_, _, _, _)
JoinFrom(elems, sep, k, acc) ==
    IF k > Len(elems) THEN acc
    ELSE JoinFrom(elems, sep, k + 1, acc \o sep \o elems[k])

Join(elems, sep) ==
    IF elems = <<>> THEN <<>> ELSE JoinFrom(elems, sep, 2, elems[1])

\* strings.Split(s, "\n"): the segments between the newlines, one more than
\* there are newlines
RECURSIVE SplitFrom(_, _, _)
SplitFrom(s, segs, cur) ==
    IF \A k \in 1..Len(s) : s[k] # ChNewline THEN Append(segs, cur \o s)
    ELSE LET n == CHOOSE k \in 1..Len(s) :
                      s[k] = ChNewline /\ \A j \in 1..(k - 1) : s[j] # ChNewline
         IN  SplitFrom(SubSeq(s, n + 1, Len(s)), Append(segs, cur \o SubSeq(s, 1, n - 1)), <<>>)

SplitLines(s) == SplitFrom(s, <<>>, <<>>)

\* the white space of strings.Fields on ASCII text
IsSpace(c) == c \in {ChTab, ChNewline, 11, 12, 13, ChSpace}

RECURSIVE FieldsFrom(_, _, _)
FieldsFrom(s, fields, cur) ==
    IF s = <<>> THEN (IF cur = <<>> THEN fields ELSE Append(fields, cur))
    ELSE IF IsSpace(Head(s))
         THEN FieldsFrom(Tail(s), IF cur = <<>> THEN fields ELSE Append(fields, cur), <<>>)
         ELSE LET n == IF \E k \in 1..Len(s) : IsSpace(s[k])
                       THEN CHOOSE k \in 1..Len(s) :
                               IsSpace(s[k]) /\ \A j \in 1..(k - 1) : ~IsSpace(s[j])
                       ELSE Len(s) + 1
              IN  FieldsFrom(SubSeq(s, n, Len(s)), fields, cur \o SubSeq(s, 1, n - 1))

RECURSIVE FieldsOnSpaceFrom(_, _, _)
FieldsOnSpaceFrom(s, fields, cur) ==
    IF s = <<>> THEN (IF cur = <<>> THEN fields ELSE Append(fields, cur))
    ELSE IF Head(s) = ChSpace
         THEN FieldsOnSpaceFrom(Tail(s), IF cur = <<>> THEN fields ELSE Append(fields, cur), <<>>)
         ELSE FieldsOnSpaceFrom(Tail(s), fields, Append(cur, Head(s)))

FieldsOnSpaceOnly(s) == FieldsOnSpaceFrom(s, <<>>, <<>>)

\* strings.Fields
Fields(s) == FieldsFrom(s, <<>>, <<>>)

Sudo == <<115, 117, 100, 111>>

FinalCommandDropsCommand(z, cmd, args) ==
    IF z.sudo THEN [cmd |-> Sudo, args |-> args]
    ELSE [cmd |-> cmd, args |-> args]

\* the command and the arguments run hands to the executor
FinalCommand(z, cmd, args) ==
    IF z.sudo THEN [cmd |-> Sudo, args |-> <<cmd>> \o args]
    ELSE [cmd |-> cmd, args |-> args]

\* output := strings.Fields of every line but the last
Tokenize(stdout) ==
    LET lines == SplitLines(stdout)
        kept == SubSeq(lines, 1, Len(lines) - 1)
    IN  [i \in 1..Len(kept) |-> Fields(kept[i])]

(* ------------------- specification: one run call ----------------------- *)
MaxOut == 5
MaxPartial == 1
OutAlphabet == {97, ChSpace, ChTab, ChNewline}
ErrTexts == {<<>>, <<101, 114, 114>>}
ExecErrors == {<<"exit status 1">>, <<"executable file not found">>}
Ids == {"id-1", "id-2"}
Zfs == <<122, 102, 115>>
Zpool == <<122, 112, 111, 111, 108>>
ArgLists == { <<>>,
              <<(<<108, 105, 115, 116>>)>>,
              <<(<<108, 105, 115, 116>>), (<<ChMinus, 72>>)>> }

InitRun ==
    /\ pc = "call"
    /\ arg \in [z : [sudo : BOOLEAN], withSink : BOOLEAN,
                cmd : {Zfs, Zpool}, args : ArgLists]
    /\ ret = NoValue
    /\ NoRun

\* up to the START event
RunStart ==
    /\ pc = "call"
    /\ \E id \in Ids :
         LET final == FinalCommand(arg.z, arg.cmd, arg.args)
             joinedArgs == Join(final.args, <<ChSpace>>)
         IN  /\ frame' = [cmd |-> final.cmd, args |-> final.args, id |-> id,
                          joinedArgs |-> joinedArgs,
                          stdout |-> <<>>, stderr |-> <<>>]
             /\ log' = Append(log, <<id, "START", joinedArgs>>)
    /\ pc' = "exec"
    /\ UNCHANGED <<arg, ret, proc, sink, pkg>>

\* the executor writes the output of the process to cmdOut and to stderr
Executed(out, errOut, err) ==
    /\ proc' = [out |-> out, errOut |-> errOut, err |-> err]
    /\ IF arg.withSink
       THEN /\ sink' = sink \o out
            /\ frame' = [frame EXCEPT !.stderr = errOut]
       ELSE /\ sink' = sink
            /\ frame' = [frame EXCEPT !.stdout = out, !.stderr = errOut]

ExecFailsLogsFinish ==
    /\ pc = "exec"
    /\ \E out \in StringsUpTo(OutAlphabet, MaxPartial), errOut \in ErrTexts,
          err \in ExecErrors :
         /\ Executed(out, errOut, err)
         /\ ret' = [val |-> Nil,
                    err |-> Ref([Err |-> err,
                                 Debug |-> Join(<<frame.cmd, frame.joinedArgs>>, <<ChSpace>>),
                                 Stderr |-> errOut])]
    /\ log' = Append(log, <<frame.id, "FINISH">>)
    /\ pc' = "done"
    /\ UNCHANGED <<arg, pkg>>

\* z.exec.Run returns an error
ExecFails ==
    /\ pc = "exec"
    /\ \E out \in StringsUpTo(OutAlphabet, MaxPartial), errOut \in ErrTexts,
          err \in ExecErrors :
         /\ Executed(out, errOut, err)
         /\ ret' = [val |-> Nil,
                    err |-> Ref([Err |-> err,
                                 Debug |-> Join(<<frame.cmd, frame.joinedArgs>>, <<ChSpace>>),
                                 Stderr |-> errOut])]
    /\ pc' = "done"
    /\ UNCHANGED <<arg, log, pkg>>

\* z.exec.Run returns nil
ExecSucceeds ==
    /\ pc = "exec"
    /\ \E out \in StringsUpTo(OutAlphabet, MaxOut), errOut \in ErrTexts :
         Executed(out, errOut, NoErr)
    /\ pc' = "finish"
    /\ UNCHANGED <<arg, ret, log, pkg>>

\* from the FINISH event to the return
RunFinish ==
    /\ pc = "finish"
    /\ log' = Append(log, <<frame.id, "FINISH">>)
    /\ ret' = IF arg.withSink
              THEN [val |-> Nil, err |-> Nil]
              ELSE [val |-> Ref(Tokenize(frame.stdout)), err |-> Nil]
    /\ pc' = "done"
    /\ UNCHANGED <<arg, frame, proc, sink, pkg>>

NextRun == RunStart \/ ExecFails \/ ExecSucceeds \/ RunFinish

SpecRun == InitRun /\ [][NextRun]_vars

(* ------------------------------ C8 ------------------------------------- *)
\* the text ends in a byte of a field, not in a newline
Unterminated(out) ==
    out # <<>> /\ out[Len(out)] \notin {ChTab, ChNewline, 11, 12, 13, ChSpace}

\* C8: when run buffers stdout itself and the command succeeds, captured
\* output whose last line is not ended by a newline makes run return a
\* Format error and no rows: a non-empty last line is never removed.
C8_UnterminatedIsError ==
    (pc = "done" /\ ~arg.withSink /\ proc.err = NoErr /\ Unterminated(proc.out)) =>
        (ret.val = Nil /\ ret.err # Nil)

(* ------------------------------ C9 ------------------------------------- *)
Whitespace == {ChTab, ChNewline, 11, 12, 13, ChSpace}

Kth(S, k) == CHOOSE x \in S : Cardinality({y \in S : y <= x}) = k

NewlinesOf(s) == {k \in 1..Len(s) : s[k] = ChNewline}

\* line i of a text: the bytes between newline i - 1 and newline i
LineOf(s, i) ==
    SubSeq(s, IF i = 1 THEN 1 ELSE Kth(NewlinesOf(s), i - 1) + 1,
              Kth(NewlinesOf(s), i) - 1)

\* the maximal runs of bytes that are not white space, in order
RunsOf(l) ==
    LET starts == {k \in 1..Len(l) :
                     l[k] \notin Whitespace /\ (k = 1 \/ l[k - 1] \in Whitespace)}
        ends == {k \in 1..Len(l) :
                     l[k] \notin Whitespace /\ (k = Len(l) \/ l[k + 1] \in Whitespace)}
    IN  [j \in 1..Cardinality(starts) |-> SubSeq(l, Kth(starts, j), Kth(ends, j))]

\* C9: on success, with a sink run returns no rows and no error whatever the
\* process wrote, and the written bytes reach the sink unparsed; without a
\* sink and with newline-terminated output of n lines it returns exactly n
\* rows, row i being the whitespace-delimited fields of line i, with no row
\* for the trailing empty segment.
C9_SuccessResult ==
    (pc = "done" /\ proc.err = NoErr) =>
        IF arg.withSink
        THEN /\ ret = [val |-> Nil, err |-> Nil]
             /\ sink = proc.out
        ELSE (proc.out # <<>> /\ proc.out[Len(proc.out)] = ChNewline) =>
                /\ ret.err = Nil
                /\ ret.val # Nil
                /\ sink = <<>>
                /\ Len(Deref(ret.val)) = Cardinality(NewlinesOf(proc.out))
                /\ \A i \in 1..Cardinality(NewlinesOf(proc.out)) :
                       Deref(ret.val)[i] = RunsOf(LineOf(proc.out, i))

\* two lines, the first of two fields around a tab, the second empty
C9_Witness ==
    /\ pc = "done"
    /\ ~arg.withSink
    /\ proc.err = NoErr
    /\ proc.out = <<97, ChTab, 97, ChNewline, ChNewline>>
    /\ ret.err = Nil
    /\ Deref(ret.val) = << <<(<<97>>), (<<97>>)>>, <<>> >>

(* ------------------------------ C10 ------------------------------------ *)
RECURSIVE SpaceJoined(_)
SpaceJoined(ss) ==
    IF ss = <<>> THEN <<>>
    ELSE IF Len(ss) = 1 THEN ss[1]
    ELSE ss[1] \o <<ChSpace>> \o SpaceJoined(Tail(ss))

\* the command line executed: with privilege escalation the escalation
\* command, then the original command as the first argument
CommandLine ==
    IF arg.z.sudo
    THEN <<115, 117, 100, 111, ChSpace>> \o SpaceJoined(<<arg.cmd>> \o arg.args)
    ELSE arg.cmd \o <<ChSpace>> \o SpaceJoined(arg.args)

\* C10: when the executor reports a launch failure or a nonzero exit, run
\* returns no rows and an error whose Stderr is the text captured on stderr
\* and whose Debug is the final command, a space and the space-joined final
\* arguments (with privilege escalation: the escalation command, and the
\* original command as first argument).
C10_ExecutionError ==
    (pc = "done" /\ proc.err # NoErr) =>
        /\ ret.val = Nil
        /\ ret.err = Ref([Err |-> proc.err, Debug |-> CommandLine,
                          Stderr |-> proc.errOut])

\* "sudo zfs list -H" failed with text on stderr
C10_Witness ==
    /\ pc = "done"
    /\ arg.z.sudo
    /\ arg.cmd = Zfs
    /\ Len(arg.args) = 2
    /\ proc.err = <<"exit status 1">>
    /\ proc.errOut # <<>>
    /\ ret.val = Nil
    /\ Deref(ret.err).Stderr = proc.errOut
    /\ Deref(ret.err).Debug =
          <<115, 117, 100, 111, ChSpace, 122, 102, 115, ChSpace,
            108, 105, 115, 116, ChSpace, ChMinus, 72>>

(* ------------------------ setString / setUint -------------------------- *)
Sentinel == <<45>>

\* the value setString stores in the field
setString(value) == IF value # Sentinel THEN value ELSE <<>>

MaxUint64Digits == <<49, 56, 52, 52, 54, 55, 52, 52, 48, 55, 51, 55, 48, 57, 53, 53, 49, 54, 49, 53>>

\* strconv.ParseUint(value, 10, 64): decimal digits only, within 64 bits
ParseUint64(value) ==
    IF value = <<>> \/ \E k \in 1..Len(value) : ~IsDigit(value[k])
    THEN [val |-> 0, err |-> <<"ErrSyntax">>]
    ELSE LET d == StripZeros(value)
         IN  IF \/ Len(d) > Len(MaxUint64Digits)
                \/ (Len(d) = Len(MaxUint64Digits) /\ DigitsGreater(d, MaxUint64Digits))
             THEN [val |-> "MaxUint64", err |-> <<"ErrRange">>]
             ELSE [val |-> DecimalValue(value, 0), err |-> NoErr]

\* the field after setUint (left alone on an error), and the error
setUint(field, value) ==
    IF value # Sentinel
    THEN LET p == ParseUint64(value)
         IN  IF p.err # NoErr THEN [field |-> field, err |-> p.err]
             ELSE [field |-> p.val, err |-> NoErr]
    ELSE [field |-> 0, err |-> NoErr]

(* --------------------------- Zpool.parseLine --------------------------- *)
\* a float64 is <<m, k>> for m / 10^k
FloatZero == <<0, 0>>

\* the index of the decimal point of s, or Len(s) + 1
PointOf(s) ==
    IF \E k \in 1..Len(s) : s[k] = 46
    THEN CHOOSE k \in 1..Len(s) : s[k] = 46 /\ \A j \in 1..(k - 1) : s[j] # 46
    ELSE Len(s) + 1

\* strconv.ParseFloat(s, 64) on text of signs, digits and points: an
\* optional sign, then digits with at most one point and at least one digit
ParseFloat(s) ==
    LET signed == s # <<>> /\ s[1] \in {ChPlus, ChMinus}
        body == IF signed THEN Tail(s) ELSE s
        p == PointOf(body)
        whole == SubSeq(body, 1, p - 1)
        frac == SubSeq(body, p + 1, Len(body))
        digits == whole \o frac
    IN  IF digits = <<>> \/ \E k \in 1..Len(digits) : ~IsDigit(digits[k])
        THEN [val |-> FloatZero, err |-> <<"ErrSyntax">>]
        ELSE [val |-> <<IF signed /\ s[1] = ChMinus
                        THEN 0 - DecimalValue(digits, 0)
                        ELSE DecimalValue(digits, 0),
                        Len(frac)>>,
              err |-> NoErr]

\* strings.Index(val, "%"), or -1
IndexPercent(val) ==
    IF \E k \in 1..Len(val) : val[k] = 37
    THEN (CHOOSE k \in 1..Len(val) : val[k] = 37 /\ \A j \in 1..(k - 1) : val[j] # 37) - 1
    ELSE 0 - 1

\* a runtime panic, told from every error by its two parts
Panic == <<"panic", "index out of range">>
IsPanic(e) == Len(e) = 2 /\ e[1] = "panic"

\* the pool after the call and the error; an index or a slice bound out of
\* range is the error Panic (the call does not return)
zpoolParseLine(z, line) ==
    IF Len(line) < 3 THEN [z |-> z, err |-> Panic]
    ELSE
    LET prop == line[2]
        val == line[3]
        uint(old) == setUint(old, val)
    IN  CASE prop = <<110, 97, 109, 101>> -> [z |-> [z EXCEPT !.Name = setString(val)], err |-> NoErr]
          [] prop = <<104, 101, 97, 108, 116, 104>> -> [z |-> [z EXCEPT !.Health = setString(val)], err |-> NoErr]
          [] prop = <<97, 108, 108, 111, 99, 97, 116, 101, 100>> ->
                [z |-> [z EXCEPT !.Allocated = uint(z.Allocated).field],
                 err |-> uint(z.Allocated).err]
          [] prop = <<115, 105, 122, 101>> ->
                [z |-> [z EXCEPT !.Size = uint(z.Size).field], err |-> uint(z.Size).err]
          [] prop = <<102, 114, 101, 101>> ->
                [z |-> [z EXCEPT !.Free = uint(z.Free).field], err |-> uint(z.Free).err]
          [] prop = <<102, 114, 97, 103, 109, 101, 110, 116, 97, 116, 105, 111, 110>> ->
                LET i == IF IndexPercent(val) < 0 THEN Len(val) ELSE IndexPercent(val)
                    r == setUint(z.Fragmentation, SubSeq(val, 1, i))
                IN  [z |-> [z EXCEPT !.Fragmentation = r.field], err |-> r.err]
          [] prop = <<114, 101, 97, 100, 111, 110, 108, 121>> ->
                [z |-> [z EXCEPT !.ReadOnly = (val = <<111, 110>>)], err |-> NoErr]
          [] prop = <<102, 114, 101, 101, 105, 110, 103>> ->
                [z |-> [z EXCEPT !.Freeing = uint(z.Freeing).field],
                 err |-> uint(z.Freeing).err]
          [] prop = <<108, 101, 97, 107, 101, 100>> ->
                [z |-> [z EXCEPT !.Leaked = uint(z.Leaked).field],
                 err |-> uint(z.Leaked).err]
          [] prop = <<100, 101, 100, 117, 112, 114, 97, 116, 105, 111>> ->
                IF val = <<>> THEN [z |-> z, err |-> Panic]
                ELSE LET f == ParseFloat(SubSeq(val, 1, Len(val) - 1))
                     IN  [z |-> [z EXCEPT !.DedupRatio = f.val], err |-> f.err]
          [] OTHER -> [z |-> z, err |-> NoErr]

(* ------------- specification: one line of zpool get -------------------- *)
MaxVal == 3
\* the sentinel, digits, a point, the suffixes and the letters of "on"
ValAlphabet == {ChMinus, ChZero, 49, 46, 37, 120, 111, 110}

PoolProps ==
    {<<110, 97, 109, 101>>, <<104, 101, 97, 108, 116, 104>>, <<97, 108, 108, 111, 99, 97, 116, 101, 100>>, <<115, 105, 122, 101>>, <<102, 114, 101, 101>>, <<102, 114, 97, 103, 109, 101, 110, 116, 97, 116, 105, 111, 110>>,
     <<114, 101, 97, 100, 111, 110, 108, 121>>, <<102, 114, 101, 101, 105, 110, 103>>, <<108, 101, 97, 107, 101, 100>>, <<100, 101, 100, 117, 112, 114, 97, 116, 105, 111>>, <<80, 82, 79, 80, 69, 82, 84, 89>>}

\* &Zpool{z: z, Name: name}, and a pool that earlier lines have filled
NewZpool(name) ==
    [Name |-> name, Health |-> <<>>, Allocated |-> 0, Size |-> 0, Free |-> 0,
     Fragmentation |-> 0, ReadOnly |-> FALSE, Freeing |-> 0, Leaked |-> 0,
     DedupRatio |-> FloatZero]

FilledZpool ==
    [Name |-> <<112>>, Health |-> <<79, 78, 76, 73, 78, 69>>, Allocated |-> 7, Size |-> 7, Free |-> 7,
     Fragmentation |-> 7, ReadOnly |-> TRUE, Freeing |-> 7, Leaked |-> 7,
     DedupRatio |-> <<100, 2>>]

PoolLines ==
    {<<<<112>>, prop, val>> : prop \in PoolProps, val \in StringsUpTo(ValAlphabet, MaxVal)}
        \cup {<<>>, <<<<112>>, <<115, 105, 122, 101>>>>}

InitPool ==
    /\ pc = "call"
    /\ arg \in [z : {NewZpool(<<112>>), FilledZpool}, line : PoolLines]
    /\ ret = NoValue
    /\ NoRun

\* ret.z is the receiver after the call
ZpoolParseLine ==
    /\ pc = "call"
    /\ ret' = zpoolParseLine(arg.z, arg.line)
    /\ pc' = IF zpoolParseLine(arg.z, arg.line).err = Panic THEN "panic" ELSE "done"
    /\ UNCHANGED <<arg, env>>

NextPool == ZpoolParseLine

SpecPool == InitPool /\ [][NextPool]_vars

(* ------------------------------ C14 ------------------------------------ *)
\* the properties of a pool that are unsigned integers
UintProps == {<<97, 108, 108, 111, 99, 97, 116, 101, 100>>, <<115, 105, 122, 101>>, <<102, 114, 101, 101>>, <<102, 114, 101, 101, 105, 110, 103>>, <<108, 101, 97, 107, 101, 100>>}

AllDigits(s) == s # <<>> /\ \A k \in 1..Len(s) : s[k] \in ChZero..ChNine

\* C14: for every typed field of a pool record (text, unsigned integer,
\* fragmentation percentage, dedup ratio) the raw value "-" is coerced to
\* the zero value of the field's type and parsing succeeds; a value of an
\* unsigned-integer field that is neither "-" nor decimal digits is an error.
C14_SentinelIsZero ==
    (pc \in {"done", "panic"} /\ Len(arg.line) = 3) =>
        /\ arg.line[3] = <<45>> =>
              /\ ret.err = NoErr
              /\ arg.line[2] = <<110, 97, 109, 101>> => ret.z.Name = <<>>
              /\ arg.line[2] = <<104, 101, 97, 108, 116, 104>> => ret.z.Health = <<>>
              /\ arg.line[2] = <<97, 108, 108, 111, 99, 97, 116, 101, 100>> => ret.z.Allocated = 0
              /\ arg.line[2] = <<115, 105, 122, 101>> => ret.z.Size = 0
              /\ arg.line[2] = <<102, 114, 101, 101>> => ret.z.Free = 0
              /\ arg.line[2] = <<102, 114, 101, 101, 105, 110, 103>> => ret.z.Freeing = 0
              /\ arg.line[2] = <<108, 101, 97, 107, 101, 100>> => ret.z.Leaked = 0
              /\ arg.line[2] = <<102, 114, 97, 103, 109, 101, 110, 116, 97, 116, 105, 111, 110>> => ret.z.Fragmentation = 0
              /\ arg.line[2] = <<100, 101, 100, 117, 112, 114, 97, 116, 105, 111>> => ret.z.DedupRatio = <<0, 0>>
        /\ ( /\ arg.line[2] \in UintProps
             /\ arg.line[3] # <<45>>
             /\ ~AllDigits(arg.line[3]) ) => ret.err # NoErr

(* -------------------------- Dataset.parseProps ------------------------- *)
\* strings.ToLower on ASCII
ToLower(s) == [i \in 1..Len(s) |-> IF s[i] \in 65..90 THEN s[i] + 32 ELSE s[i]]

\* a map[string]string is a function on its keys; m[key] of a missing key
\* is the empty string
NoProps == <<>>
MapGet(m, key) == IF key \in DOMAIN m THEN m[key] ELSE <<>>
MapSet(m, key, val) == [k \in (DOMAIN m) \cup {key} |-> IF k = key THEN val ELSE m[k]]

\* the loop over out[0] from column i on
defaultValEmpty == <<>>

\* val := "-"
defaultVal == Sentinel

RECURSIVE fillProps(_, _, _, _)
fillProps(props, header, values, i) ==
    IF i > Len(header) THEN props
    ELSE LET val == IF i <= Len(values) THEN values[i] ELSE defaultVal
         IN  fillProps(MapSet(props, ToLower(header[i]), val), header, values, i + 1)

FormatError == <<"output does not match what is expected on this platform">>

tableTooSmallBelowOnly(props, known) == Cardinality(DOMAIN props) < known

\* len(d.props) <= len(dsPropList)
tableTooSmall(props, known) == Cardinality(DOMAIN props) <= known

\* the field assignments of parseProps in order; "os" is the return on solaris
FieldSteps ==
    << [kind |-> "string", field |-> "Name", key |-> <<110, 97, 109, 101>>],
       [kind |-> "string", field |-> "Origin", key |-> <<111, 114, 105, 103, 105, 110>>],
       [kind |-> "uint", field |-> "Used", key |-> <<117, 115, 101, 100>>],
       [kind |-> "uint", field |-> "Avail", key |-> <<97, 118, 97, 105, 108>>],
       [kind |-> "string", field |-> "Mountpoint", key |-> <<109, 111, 117, 110, 116, 112, 111, 105, 110, 116>>],
       [kind |-> "string", field |-> "Compression", key |-> <<99, 111, 109, 112, 114, 101, 115, 115>>],
       [kind |-> "string", field |-> "Type", key |-> <<116, 121, 112, 101>>],
       [kind |-> "uint", field |-> "Volsize", key |-> <<118, 111, 108, 115, 105, 122, 101>>],
       [kind |-> "uint", field |-> "Quota", key |-> <<113, 117, 111, 116, 97>>],
       [kind |-> "uint", field |-> "Referenced", key |-> <<114, 101, 102, 101, 114>>],
       [kind |-> "os", field |-> "", key |-> <<>>],
       [kind |-> "uint", field |-> "Written", key |-> <<119, 114, 105, 116, 116, 101, 110>>],
       [kind |-> "uint", field |-> "Logicalused", key |-> <<108, 117, 115, 101, 100>>],
       [kind |-> "uint", field |-> "Usedbydataset", key |-> <<117, 115, 101, 100, 100, 115>>] >>

\* parseProps from step k on: the receiver after the call and the error
RECURSIVE setFields(_, _, _)
setFields(d, solaris, k) ==
    IF k > Len(FieldSteps) THEN [d |-> d, err |-> NoErr]
    ELSE LET s == FieldSteps[k]
         IN  CASE s.kind = "string" ->
                    setFields([d EXCEPT ![s.field] = setString(MapGet(d.props, s.key))],
                              solaris, k + 1)
               [] s.kind = "uint" ->
                    LET r == setUint(d[s.field], MapGet(d.props, s.key))
                    IN  IF r.err # NoErr THEN [d |-> d, err |-> r.err]
                        ELSE setFields([d EXCEPT ![s.field] = r.field], solaris, k + 1)
               [] OTHER ->
                    IF solaris THEN [d |-> d, err |-> NoErr]
                    ELSE setFields(d, solaris, k + 1)

\* known is len(dsPropList), solaris is runtime.GOOS == "solaris"
parseProps(d, out, known, solaris) ==
    IF Len(out) # 2 THEN [d |-> d, err |-> FormatError]
    ELSE LET filled == [d EXCEPT !.props = fillProps(d.props, out[1], out[2], 1)]
         IN  IF tableTooSmall(filled.props, known)
             THEN [d |-> filled, err |-> FormatError]
             ELSE setFields(filled, solaris, 1)

(* ---------------- specification: one call of parseProps ---------------- *)
\* the header row of zfs list -o all: the columns parseProps reads and one more
FullHeader ==
    << <<78, 65, 77, 69>>, <<85, 83, 69, 68>>, <<65, 86, 65, 73, 76>>, <<82, 69, 70, 69, 82>>, <<79, 82, 73, 71, 73, 78>>, <<77, 79, 85, 78, 84, 80, 79, 73, 78, 84>>,
       <<67, 79, 77, 80, 82, 69, 83, 83>>, <<84, 89, 80, 69>>, <<86, 79, 76, 83, 73, 90, 69>>, <<81, 85, 79, 84, 65>>, <<87, 82, 73, 84, 84, 69, 78>>, <<76, 85, 83, 69, 68>>,
       <<85, 83, 69, 68, 68, 83>>, <<67, 82, 69, 65, 84, 73, 79, 78>> >>

Without(s, i) == SubSeq(s, 1, i - 1) \o SubSeq(s, i + 1, Len(s))

\* prefixes of the full header, the full header less one column or with one
\* column repeated, and a lowercase header of three columns
Headers ==
    {SubSeq(FullHeader, 1, k) : k \in 0..Len(FullHeader)}
        \cup {Without(FullHeader, i) : i \in 1..Len(FullHeader)}
        \cup {FullHeader \o <<FullHeader[i]>> : i \in 1..2}
        \cup {<<<<110, 97, 109, 101>>, <<117, 115, 101, 100>>, <<97, 118, 97, 105, 108>>>>}

\* a value row: a name and numbers, one value replaced, cut to some length
BaseRow == [i \in 1..(Len(FullHeader) + 1) |-> IF i = 1 THEN <<112, 47, 100>> ELSE <<49>>]
ValueRows ==
    LET OddValues == {Sentinel, <<120>>, <<>>, <<49, 56, 52, 52, 54, 55, 52, 52, 48, 55, 51, 55, 48, 57, 53, 53, 49, 54, 49, 54>>}
    IN  {SubSeq([BaseRow EXCEPT ![i] = v], 1, n) :
            i \in 1..Len(BaseRow), v \in OddValues, n \in 0..Len(BaseRow)}

MaxRows == 3
Tables ==
    {<<>>} \cup {<<h>> : h \in Headers}
        \cup {<<h, v>> : h \in Headers, v \in ValueRows}
        \cup {[i \in 1..n |-> IF i = 1 THEN FullHeader ELSE BaseRow] : n \in 3..MaxRows}

\* len(dsPropList); the list is declared outside the files modelled here
KnownCounts == {2, 13, 14}

\* &Dataset{z: z, Name: name, props: make(map[string]string)}
NewDataset(name) ==
    [Name |-> name, Origin |-> <<>>, Used |-> 0, Avail |-> 0, Mountpoint |-> <<>>,
     Compression |-> <<>>, Type |-> <<>>, Written |-> 0, Volsize |-> 0,
     Logicalused |-> 0, Usedbydataset |-> 0, Quota |-> 0, Referenced |-> 0,
     props |-> NoProps]

\* the record after an earlier row of the same dataset
ParsedDataset ==
    parseProps(NewDataset(<<112, 47, 100>>), <<FullHeader, BaseRow>>, Len(FullHeader) - 1, FALSE).d

InitProps ==
    /\ pc = "call"
    /\ arg \in [d : {NewDataset(<<112, 47, 100>>), ParsedDataset}, out : Tables, known : KnownCounts,
                solaris : BOOLEAN]
    /\ ret = NoValue
    /\ NoRun

\* ret.d is the receiver after the call
ParseProps ==
    /\ pc = "call"
    /\ ret' = parseProps(arg.d, arg.out, arg.known, arg.solaris)
    /\ pc' = "done"
    /\ UNCHANGED <<arg, env>>

NextProps == ParseProps

SpecProps == InitProps /\ [][NextProps]_vars

(* ------------------------------ C12 ------------------------------------ *)
\* the keys of the table after the header's columns are stored
TableKeys ==
    (DOMAIN arg.d.props) \cup {ToLower(arg.out[1][i]) : i \in 1..Len(arg.out[1])}

\* C12 as stated: parseProps rejects with the Format error when the row
\* count is not 2 and when the table has fewer entries than the known
\* minimum; a table whose entry count is not below the minimum is not
\* rejected by this check.
C12_RejectsBelowMinimum ==
    pc = "done" =>
        /\ Len(arg.out) # 2 => ret.err = FormatError
        /\ (Len(arg.out) = 2 /\ Cardinality(TableKeys) < arg.known) =>
              ret.err = FormatError
        /\ (Len(arg.out) = 2 /\ Cardinality(TableKeys) >= arg.known) =>
              ret.err # FormatError

\* C12 amended: parseProps rejects with the Format error when the row count
\* is not 2 (the record is left as it was) and when the table has no more
\* entries than the known minimum, fewer or exactly as many; a table whose
\* entry count exceeds the minimum is not rejected by this check.
C12_RejectsNotAboveMinimum ==
    pc = "done" =>
        /\ Len(arg.out) # 2 => (ret.err = FormatError /\ ret.d = arg.d)
        /\ (Len(arg.out) = 2 /\ Cardinality(TableKeys) <= arg.known) =>
              ret.err = FormatError
        /\ (Len(arg.out) = 2 /\ Cardinality(TableKeys) > arg.known) =>
              ret.err # FormatError

\* a table of exactly the minimum size is rejected
C12_Witness ==
    /\ pc = "done"
    /\ Len(arg.out) = 2
    /\ Cardinality(TableKeys) = arg.known
    /\ arg.known = 13
    /\ ret.err = FormatError

(* ------------------------------ C13 ------------------------------------ *)
\* the value the table holds for key after the call: the value of the last
\* header column with that name, "-" past the end of the value row, else
\* what the record's table held before, else the empty string of a missing key
TableValue(key) ==
    LET h == arg.out[1]
        cols == {i \in 1..Len(h) : ToLower(h[i]) = key}
        last == CHOOSE i \in cols : \A j \in cols : j <= i
    IN  IF cols # {}
        THEN IF last <= Len(arg.out[2]) THEN arg.out[2][last] ELSE <<45>>
        ELSE IF key \in DOMAIN arg.d.props THEN arg.d.props[key] ELSE <<>>

InHeader(key) == \E i \in 1..Len(arg.out[1]) : ToLower(arg.out[1][i]) = key

TextKeys ==
    << <<"Name", <<110, 97, 109, 101>>>>, <<"Origin", <<111, 114, 105, 103, 105, 110>>>>, <<"Mountpoint", <<109, 111, 117, 110, 116, 112, 111, 105, 110, 116>>>>,
       <<"Compression", <<99, 111, 109, 112, 114, 101, 115, 115>>>>, <<"Type", <<116, 121, 112, 101>>>> >>

UintKeys ==
    << <<"Used", <<117, 115, 101, 100>>>>, <<"Avail", <<97, 118, 97, 105, 108>>>>, <<"Volsize", <<118, 111, 108, 115, 105, 122, 101>>>>,
       <<"Quota", <<113, 117, 111, 116, 97>>>>, <<"Referenced", <<114, 101, 102, 101, 114>>>>, <<"Written", <<119, 114, 105, 116, 116, 101, 110>>>>,
       <<"Logicalused", <<108, 117, 115, 101, 100>>>>, <<"Usedbydataset", <<117, 115, 101, 100, 100, 115>>>> >>

\* the unsigned-integer fields the call reads: the last three not on solaris
UintRead == IF arg.solaris THEN 1..5 ELSE 1..8

SmallNumber(v) == AllDigits(v) /\ Len(v) <= 9
RECURSIVE NumberOf(_)
NumberOf(v) == IF v = <<>> THEN 0 ELSE 10 * NumberOf(SubSeq(v, 1, Len(v) - 1)) + (v[Len(v)] - 48)

ZeroOrText(v) == IF v = <<45>> THEN <<>> ELSE v
ZeroOrNumber(v) == IF v = <<45>> THEN 0 ELSE NumberOf(v)

zfsRun(z, cmd, args, id, p) ==
    LET final == FinalCommand(z, cmd, args)
        joinedArgs == Join(final.args, <<ChSpace>>)
    IN  IF p.err # NoErr
        THEN [val |-> Nil,
              err |-> Ref([Err |-> p.err,
                           Debug |-> Join(<<final.cmd, joinedArgs>>, <<ChSpace>>),
                           Stderr |-> p.errOut]),
              log |-> << <<id, "START", joinedArgs>> >>]
        ELSE [val |-> Ref(Tokenize(p.out)), err |-> Nil,
              log |-> << <<id, "START", joinedArgs>>, <<id, "FINISH">> >>]

\* the arguments of zfs list in listByType
listArgs(t, filter) ==
    <<<<108, 105, 115, 116>>, <<45, 114, 112>>, <<45, 116>>, t, <<45, 111>>, <<97, 108, 108>>>>
        \o (IF filter # <<>> THEN <<filter>> ELSE <<>>)

startsRecordAlways(name, line) == TRUE

\* name != line[0]
startsRecord(name, line) == name # line[1]

\* the loop of listByType from row i on; ds is the last of datasets
RECURSIVE listLoop(_, _, _, _, _, _)
listLoop(out, i, name, datasets, known, solaris) ==
    IF i > Len(out) THEN [val |-> IF datasets = <<>> THEN Nil ELSE Ref(datasets),
                          err |-> Nil]
    ELSE LET line == out[i]
         IN  IF Len(line) = 0 THEN [val |-> Nil, err |-> Panic]
             ELSE LET started == startsRecord(name, line)
                      all == IF started
                             THEN Append(datasets, NewDataset(line[1]))
                             ELSE datasets
                  IN  IF all = <<>> THEN [val |-> Nil, err |-> Panic]
                      ELSE LET r == parseProps(all[Len(all)], <<out[1], line>>,
                                               known, solaris)
                           IN  IF r.err # NoErr THEN [val |-> Nil, err |-> r.err]
                               ELSE listLoop(out, i + 1, line[1],
                                             [all EXCEPT ![Len(all)] = r.d],
                                             known, solaris)

\* the result of listByType and the events logged, for the outcome p of
\* the executor
listByType(z, t, filter, id, p, known, solaris) ==
    LET r == zfsRun(z, Zfs, listArgs(t, filter), id, p)
    IN  IF r.err # Nil THEN [val |-> Nil, err |-> r.err, log |-> r.log]
        ELSE IF Len(Deref(r.val)) = 0 THEN [val |-> Nil, err |-> Nil, log |-> r.log]
        ELSE LET l == listLoop(Deref(r.val), 2, <<>>, <<>>, known, solaris)
             IN  [val |-> l.val, err |-> l.err, log |-> r.log]

\* the -o argument of GetDataset; declared outside the files modelled here
dsPropListOptions ==
    <<110, 97, 109, 101, 44, 111, 114, 105, 103, 105, 110, 44, 117, 115, 101, 100, 44, 97, 118, 97, 105, 108, 44, 109, 111, 117, 110, 116, 112, 111, 105, 110, 116, 44, 99, 111, 109, 112, 114, 101, 115, 115, 44, 116, 121, 112, 101, 44, 118, 111, 108, 115, 105, 122, 101, 44, 113, 117, 111, 116, 97, 44, 114, 101, 102, 101, 114, 44, 119, 114, 105, 116, 116, 101, 110, 44, 108, 117, 115, 101, 100, 44, 117, 115, 101, 100, 100, 115>>

\* Dataset.parseLine is declared outside the files modelled here: whether
\* it returns an error is an input, and the record is left as it is
datasetParseLine(d, line, fails) ==
    [d |-> d, err |-> IF fails THEN <<"parseLine">> ELSE NoErr]

\* &Dataset{z: z, Name: name}
DatasetOf(z, name) ==
    [z |-> z, Name |-> name, Origin |-> <<>>, Used |-> 0, Avail |-> 0,
     Mountpoint |-> <<>>, Compression |-> <<>>, Type |-> <<>>, Written |-> 0,
     Volsize |-> 0, Logicalused |-> 0, Usedbydataset |-> 0, Quota |-> 0,
     Referenced |-> 0]

\* the loop of GetDataset from line i on; parseLine fails on line failAt
RECURSIVE getDatasetLoop(_, _, _, _)
getDatasetLoop(ds, out, i, failAt) ==
    IF i > Len(out) THEN [val |-> Ref(ds), err |-> Nil]
    ELSE LET r == datasetParseLine(ds, out[i], i = failAt)
         IN  IF r.err # NoErr THEN [val |-> Nil, err |-> r.err]
             ELSE getDatasetLoop(r.d, out, i + 1, failAt)

GetDatasetOf(z, name, id, p, failAt) ==
    LET r == zfsRun(z, Zfs, <<<<108, 105, 115, 116>>, <<45, 72, 112>>, <<45, 111>>, dsPropListOptions, name>>, id, p)
    IN  IF r.err # Nil THEN [val |-> Nil, err |-> r.err, log |-> r.log]
        ELSE LET l == getDatasetLoop(DatasetOf(z, name), Deref(r.val), 1, failAt)
             IN  [val |-> l.val, err |-> l.err, log |-> r.log]

\* the arguments of zpool in GetZpool; declared outside the files modelled here
zpoolArgs == <<<<103, 101, 116>>, <<45, 112>>, <<97, 108, 108>>>>

\* the loop of GetZpool from line i on
RECURSIVE getZpoolLoop(_, _, _)
getZpoolLoop(pool, out, i) ==
    IF i > Len(out) THEN [val |-> Ref(pool), err |-> Nil]
    ELSE LET r == zpoolParseLine(pool, out[i])
         IN  IF r.err # NoErr THEN [val |-> Nil, err |-> r.err]
             ELSE getZpoolLoop(r.z, out, i + 1)

GetZpoolOf(z, name, id, p) ==
    LET r == zfsRun(z, Zpool, zpoolArgs \o <<name>>, id, p)
    IN  IF r.err # Nil THEN [val |-> Nil, err |-> r.err, log |-> r.log]
        ELSE LET l == getZpoolLoop(NewZpool(name), Deref(r.val), 1)
             IN  [val |-> l.val, err |-> l.err, log |-> r.log]

\* ids and ps are the ids and the executor outcomes of zfs rename and of
\* the zfs list of GetDataset
RenameOf(d, name, createParent, recursiveRenameSnapshots, ids, ps, failAt) ==
    LET args == <<<<114, 101, 110, 97, 109, 101>>, d.Name, name>>
                    \o (IF createParent THEN <<<<45, 112>>>> ELSE <<>>)
                    \o (IF recursiveRenameSnapshots THEN <<<<45, 114>>>> ELSE <<>>)
        r == zfsRun(d.z, Zfs, args, ids[1], ps[1])
    IN  IF r.err # Nil THEN [val |-> Ref(d), err |-> r.err, log |-> r.log]
        ELSE LET g == GetDatasetOf(d.z, name, ids[2], ps[2], failAt)
             IN  [val |-> g.val, err |-> g.err, log |-> r.log \o g.log]

(* -------------- specification: one call of an operation ---------------- *)
MaxBatch == 3

\* the text the process prints for a batch of rows: tabs between the
\* fields, a newline after each row
RECURSIVE TextOf(_)
TextOf(rows) ==
    IF rows = <<>> THEN <<>>
    ELSE Join(Head(rows), <<ChTab>>) \o <<ChNewline>> \o TextOf(Tail(rows))

GoodRow(name) == SubSeq([BaseRow EXCEPT ![1] = name], 1, Len(FullHeader))

\* what zfs list prints: nothing, or a header line and up to MaxBatch lines
ListOutputs ==
    LET ListRows == {GoodRow(<<97>>), GoodRow(<<98>>), <<<<97>>, <<49>>>>,
                     [GoodRow(<<98>>) EXCEPT ![2] = <<120>>], <<>>}
        ListHeaders == {FullHeader, <<<<78, 65, 77, 69>>, <<85, 83, 69, 68>>, <<65, 86, 65, 73, 76>>>>}
    IN  {<<>>} \cup {TextOf(<<h>> \o rows) :
                        h \in ListHeaders, rows \in StringsUpTo(ListRows, MaxBatch)}

\* the outcomes of the executor for a process that prints one of texts
ExecOutcomes(texts) ==
    [out : texts, errOut : {<<>>}, err : {NoErr}]
        \cup [out : {<<>>}, errOut : ErrTexts, err : ExecErrors]


\* zfs list -Hp prints no header: up to two lines of a dataset
GetOutputs == {<<>>, TextOf(<<GoodRow(<<98>>)>>), TextOf(<<GoodRow(<<98>>), GoodRow(<<98>>)>>)}

\* zpool get -p prints a header and a line for each property
PoolOutputs ==
    {TextOf(<<<<<<78, 65, 77, 69>>, <<80, 82, 79, 80, 69, 82, 84, 89>>, <<86, 65, 76, 85, 69>>, <<83, 79, 85, 82, 67, 69>>>>>> \o rows) :
        rows \in StringsUpTo({<<<<112>>, <<115, 105, 122, 101>>, <<49>>, <<45>>>>,
                              <<<<112>>, <<115, 105, 122, 101>>, <<120>>, <<45>>>>,
                              <<<<112>>, <<100, 101, 100, 117, 112, 114, 97, 116, 105, 111>>, <<49, 46, 48, 48, 120>>, <<45>>>>,
                              <<<<112>>, <<115, 105, 122, 101>>>>}, 2)}

\* Datasets("") and, on a client with sudo, Snapshots("a"); GetDataset("b"),
\* GetZpool("p"), and Rename of a dataset named a to b
OpsCalls ==
    {[op |-> "listByType", z |-> [sudo |-> f[1]], t |-> f[2], filter |-> f[3],
      known |-> k, solaris |-> s] :
        f \in {<<FALSE, <<97, 108, 108>>, <<>> >>, <<TRUE, <<115, 110, 97, 112, 115, 104, 111, 116>>, <<97>>>>},
        k \in KnownCounts, s \in BOOLEAN}
    \cup [op : {"GetDataset"}, z : [sudo : BOOLEAN], name : {<<98>>}]
    \cup [op : {"GetZpool"}, z : [sudo : BOOLEAN], name : {<<112>>}]
    \cup [op : {"Rename"}, d : {DatasetOf(z, <<97>>) : z \in [sudo : BOOLEAN]},
          name : {<<98>>}, createParent : BOOLEAN, recursiveRenameSnapshots : BOOLEAN]

InitOps ==
    /\ pc = "call"
    /\ arg \in OpsCalls
    /\ ret = NoValue
    /\ NoRun

\* the return of an operation whose result is r
Returns(r) ==
    /\ ret' = [val |-> r.val, err |-> r.err]
    /\ log' = log \o r.log
    /\ pc' = IF IsPanic(r.err) THEN "panic" ELSE "done"

ListByType ==
    /\ pc = "call"
    /\ arg.op = "listByType"
    /\ \E id \in Ids, p \in ExecOutcomes(ListOutputs) :
         /\ proc' = p
         /\ Returns(listByType(arg.z, arg.t, arg.filter, id, p, arg.known, arg.solaris))
    /\ UNCHANGED <<arg, frame, sink, pkg>>

GetDataset ==
    /\ pc = "call"
    /\ arg.op = "GetDataset"
    /\ \E id \in Ids, p \in ExecOutcomes(GetOutputs), failAt \in 0..2 :
         /\ proc' = p
         /\ Returns(GetDatasetOf(arg.z, arg.name, id, p, failAt))
    /\ UNCHANGED <<arg, frame, sink, pkg>>

GetZpool ==
    /\ pc = "call"
    /\ arg.op = "GetZpool"
    /\ \E id \in Ids, p \in ExecOutcomes(PoolOutputs) :
         /\ proc' = p
         /\ Returns(GetZpoolOf(arg.z, arg.name, id, p))
    /\ UNCHANGED <<arg, frame, sink, pkg>>

\* proc is the outcome of the last command executed
Rename ==
    /\ pc = "call"
    /\ arg.op = "Rename"
    /\ \E id1 \in Ids, id2 \in Ids, p1 \in ExecOutcomes({<<>>}),
          p2 \in ExecOutcomes(GetOutputs), failAt \in 0..2 :
         /\ proc' = IF p1.err # NoErr THEN p1 ELSE p2
         /\ Returns(RenameOf(arg.d, arg.name, arg.createParent,
                             arg.recursiveRenameSnapshots, <<id1, id2>>, <<p1, p2>>,
                             failAt))
    /\ UNCHANGED <<arg, frame, sink, pkg>>

NextOps == ListByType \/ GetDataset \/ GetZpool \/ Rename

SpecOps == InitOps /\ [][NextOps]_vars

(* ------------------------------ C15 ------------------------------------ *)
\* the batch of rows doOutput returned
Batch == Tokenize(proc.out)

\* row i of the batch has a leading name and parses under the header row
RowParses(i) ==
    /\ Batch[i] # <<>>
    /\ parseProps(NewDataset(Batch[i][1]), <<Batch[1], Batch[i]>>,
                  arg.known, arg.solaris).err = NoErr

\* the value rows that begin a maximal run of equal leading names
RunStarts == {i \in 2..Len(Batch) : i = 2 \/ Batch[i][1] # Batch[i - 1][1]}

\* the k-th run start in batch order, and the last row of its run
KthStart(k) == CHOOSE i \in RunStarts : Cardinality({j \in RunStarts : j < i}) = k - 1
RunEnd(i) ==
    CHOOSE e \in i..Len(Batch) :
        /\ \A j \in i..e : Batch[j][1] = Batch[i][1]
        /\ e = Len(Batch) \/ Batch[e + 1][1] # Batch[i][1]

Records == IF ret.val = Nil THEN <<>> ELSE Deref(ret.val)

C11_ErrorMeansNoResult ==
    (pc = "done" /\ ret.err # Nil) => ret.val = Nil

(* ------------------------------ C16 ------------------------------------ *)
\* the events of the call: START with the id and the joined arguments, FINISH
StartEvent == <<frame.id, "START", Join(FinalCommand(arg.z, arg.cmd, arg.args).args, <<ChSpace>>)>>
FinishEvent == <<frame.id, "FINISH">>

\* C16 as stated: every run call logs exactly one START before the
\* executor is invoked and exactly one FINISH with the same id after the
\* executor returns and before run returns.
C16_AlwaysFinish ==
    /\ pc = "call" => log = <<>>
    /\ pc \in {"exec", "finish"} => log = <<StartEvent>>
    /\ pc = "done" => log = <<StartEvent, FinishEvent>>

\* C16 amended: every run call logs exactly one START, with the id and the
\* joined arguments, before the executor is invoked; when the executor
\* returns no error it logs exactly one FINISH with the same id before it
\* returns, and when the executor returns an error it logs no FINISH; no
\* FINISH is logged without an earlier START of the same id.
C16_FinishOnSuccess ==
    /\ pc = "call" => log = <<>>
    /\ pc = "exec" => log = <<StartEvent>>
    /\ pc = "finish" => (log = <<StartEvent>> /\ proc.err = NoErr)
    /\ pc = "done" =>
          IF proc.err = NoErr THEN log = <<StartEvent, FinishEvent>>
          ELSE log = <<StartEvent>>

\* the executor failed and run returned with START alone in the log
C16_Witness ==
    /\ pc = "done"
    /\ proc.err # NoErr
    /\ ret.err # Nil
    /\ log = <<StartEvent>>

(* ------- specification: a package-level call and a concurrent setter ---- *)
\* an interface value is two words, the type and the pointer; the loggers
\* are the defaultLogger of the initial client and two loggers of the caller
Loggers == {"L0", "L1", "L2"}
TypeOf(l) == IF l = "L0" THEN "*defaultLogger" ELSE "*userLogger"
Iface(l) == [tab |-> TypeOf(l), data |-> l]

\* a read that saw one word of an interface value from before a write and
\* the other from after it
Torn(v) == v.tab # TypeOf(v.data)

\* var z ZFS = &zfs{exec: NewLocalExecutor(), logger: &defaultLogger{}},
\* and a second client made with New(WithSudo(), WithLogger(L2))
InitialPkg ==
    [z |-> "C0",
     clients |-> [c \in {"C0", "C1"} |->
                    IF c = "C0" THEN [sudo |-> FALSE, logger |-> Iface("L0")]
                    ELSE [sudo |-> TRUE, logger |-> Iface("L2")]]]

SetterCalls ==
    {[op |-> "SetLogger", l |-> l] : l \in {Nil, Ref("L1")}}
        \cup {[op |-> "SetDefault", zfs |-> c] : c \in {Nil, Ref("C1")}}

\* what zfs list prints for the caller
ConcOutputs == {<<>>, TextOf(<<FullHeader, GoodRow(<<97>>)>>)}

\* Datasets(filter) of the package, while another goroutine calls a setter
InitConc ==
    /\ pc = [caller |-> "call", setter |-> "call"]
    /\ arg \in [setter : SetterCalls, filter : {<<>>, <<97>>}]
    /\ ret = NoValue
    /\ frame = [client |-> Nil, id |-> Nil, target |-> Nil, word |-> Nil]
    /\ proc = NoValue
    /\ sink = <<>>
    /\ log = [l \in Loggers |-> <<>>]
    /\ pkg = InitialPkg

\* the client the caller runs on, its logger as read now, and its result
\* for the outcome p of the executor
ClientOf(c) == [sudo |-> pkg.clients[c].sudo]
LoggerOf(c) == pkg.clients[c].logger
DatasetsOf(c, id, p) ==
    listByType(ClientOf(c), <<97, 108, 108>>, arg.filter, id, p, Len(FullHeader) - 1, FALSE)

\* return z.Datasets(filter): the read of the package variable
CallerReadsDefault ==
    /\ pc.caller = "call"
    /\ frame' = [frame EXCEPT !.client = Ref(pkg.z)]
    /\ pc' = [pc EXCEPT !.caller = "start"]
    /\ UNCHANGED <<arg, ret, proc, sink, log, pkg>>

\* z.logger.Log(START): a torn read of z.logger is undefined behaviour
CallerStart ==
    /\ pc.caller = "start"
    /\ LET lg == LoggerOf(Deref(frame.client))
       IN  IF Torn(lg)
           THEN /\ pc' = [pc EXCEPT !.caller = "fault"]
                /\ UNCHANGED <<frame, log>>
           ELSE \E id \in Ids :
                  /\ frame' = [frame EXCEPT !.id = Ref(id)]
                  /\ log' = [log EXCEPT ![lg.data] =
                               Append(@, DatasetsOf(Deref(frame.client), id,
                                                    [out |-> <<>>, errOut |-> <<>>,
                                                     err |-> NoErr]).log[1])]
                  /\ pc' = [pc EXCEPT !.caller = "exec"]
    /\ UNCHANGED <<arg, ret, proc, sink, pkg>>

\* z.exec.Run, and the return of the error it gives
CallerExec ==
    /\ pc.caller = "exec"
    /\ \E p \in ExecOutcomes(ConcOutputs) :
         /\ proc' = p
         /\ IF p.err # NoErr
            THEN /\ ret' = [val |-> Nil,
                            err |-> DatasetsOf(Deref(frame.client), Deref(frame.id), p).err]
                 /\ pc' = [pc EXCEPT !.caller = "done"]
            ELSE /\ ret' = ret
                 /\ pc' = [pc EXCEPT !.caller = "finish"]
    /\ UNCHANGED <<arg, frame, sink, log, pkg>>

\* z.logger.Log(FINISH), read again from the client, and the return
CallerFinish ==
    /\ pc.caller = "finish"
    /\ LET lg == LoggerOf(Deref(frame.client))
           r == DatasetsOf(Deref(frame.client), Deref(frame.id), proc)
       IN  IF Torn(lg)
           THEN /\ pc' = [pc EXCEPT !.caller = "fault"]
                /\ UNCHANGED <<ret, log>>
           ELSE /\ log' = [log EXCEPT ![lg.data] = Append(@, r.log[2])]
                /\ ret' = [val |-> r.val, err |-> r.err]
                /\ pc' = [pc EXCEPT !.caller = "done"]
    /\ UNCHANGED <<arg, frame, proc, sink, pkg>>

\* SetDefault(zfs): both clients are *zfs, so only the pointer word changes
SetDefault ==
    /\ pc.setter = "call"
    /\ arg.setter.op = "SetDefault"
    /\ pkg' = IF arg.setter.zfs # Nil THEN [pkg EXCEPT !.z = Deref(arg.setter.zfs)] ELSE pkg
    /\ pc' = [pc EXCEPT !.setter = "done"]
    /\ UNCHANGED <<arg, ret, frame, proc, sink, log>>

\* SetLogger(l): z.(*zfs) and the test of l
SetLoggerReadsDefault ==
    /\ pc.setter = "call"
    /\ arg.setter.op = "SetLogger"
    /\ IF arg.setter.l # Nil
       THEN /\ frame' = [frame EXCEPT !.target = Ref(pkg.z)]
            /\ pc' = [pc EXCEPT !.setter = "write"]
       ELSE /\ frame' = frame
            /\ pc' = [pc EXCEPT !.setter = "done"]
    /\ UNCHANGED <<arg, ret, proc, sink, log, pkg>>

\* z.logger = l: the store of one word of the interface value
SetLoggerWritesWord ==
    /\ pc.setter = "write"
    /\ \E w \in {"tab", "data"} :
         /\ pkg' = [pkg EXCEPT !.clients[Deref(frame.target)].logger[w] =
                      Iface(Deref(arg.setter.l))[w]]
         /\ frame' = [frame EXCEPT !.word = Ref(IF w = "tab" THEN "data" ELSE "tab")]
    /\ pc' = [pc EXCEPT !.setter = "half"]
    /\ UNCHANGED <<arg, ret, proc, sink, log>>

\* the store of the other word
SetLoggerWritesRest ==
    /\ pc.setter = "half"
    /\ pkg' = [pkg EXCEPT !.clients[Deref(frame.target)].logger[Deref(frame.word)] =
                 Iface(Deref(arg.setter.l))[Deref(frame.word)]]
    /\ pc' = [pc EXCEPT !.setter = "done"]
    /\ UNCHANGED <<arg, ret, frame, proc, sink, log>>

NextConc ==
    \/ CallerReadsDefault \/ CallerStart \/ CallerExec \/ CallerFinish
    \/ SetDefault \/ SetLoggerReadsDefault \/ SetLoggerWritesWord \/ SetLoggerWritesRest

SpecConc == InitConc /\ [][NextConc]_vars

(* ------------------------------ C17 ------------------------------------ *)
\* the client and the logger a call finds when no setter runs beside it:
\* those from before the setter, or those from after it
Before == <<"C0", "L0">>
After ==
    IF arg.setter.op = "SetLogger"
    THEN (IF arg.setter.l # Nil THEN <<"C0", Deref(arg.setter.l)>> ELSE Before)
    ELSE (IF arg.setter.zfs # Nil THEN <<Deref(arg.setter.zfs), "L2">> ELSE Before)

\* what the call returns and logs when it runs alone on client s[1] with logger s[2]
AloneResult(s) ==
    LET r == listByType([sudo |-> InitialPkg.clients[s[1]].sudo], <<97, 108, 108>>, arg.filter,
                        Deref(frame.id), proc, Len(FullHeader) - 1, FALSE)
    IN  [ret |-> [val |-> r.val, err |-> r.err],
         log |-> [l \in Loggers |-> IF l = s[2] THEN r.log ELSE <<>>]]

\* C17: calls issued concurrently through the package's default client,
\* SetDefault and SetLogger among them, share no mutable state: in every
\* interleaving the call returns and logs what it does when it runs alone.
C17_AsIfAlone ==
    /\ pc.caller # "fault"
    /\ pc.caller = "done" =>
          \E s \in {Before, After} :
              ret = AloneResult(s).ret /\ log = AloneResult(s).log

====
